---- MODULE Spec2Model ----
(***************************************************************************)
(* A model of pybm's git worktree wrapper (src/pybm/git.py): the version   *)
(* guard, the flag builder, the porcelain listing parser and the           *)
(* create/remove lifecycle of GitWorktreeWrapper.                          *)
(*                                                                         *)
(* Strings are sequences of one-character strings, so that startswith,     *)
(* split, splitlines and joins are computed and not assumed.               *)
(***************************************************************************)
EXTENDS Integers, Sequences, FiniteSets, TLC

VARIABLES installed, create_in_parent, store, call, result, trace

vars == <<installed, create_in_parent, store, call, result, trace>>

(***************************************************************************)
(* String literals of the source.                                          *)
(***************************************************************************)
None == <<>>

S_git == <<"g", "i", "t">>
S_worktree == <<"w", "o", "r", "k", "t", "r", "e", "e">>
S_add == <<"a", "d", "d">>
S_list == <<"l", "i", "s", "t">>
S_remove == <<"r", "e", "m", "o", "v", "e">>
S_f == <<"-", "f">>
S_checkout == <<"-", "-", "c", "h", "e", "c", "k", "o", "u", "t">>
S_no_checkout == <<"-", "-", "n", "o", "-", "c", "h", "e", "c", "k", "o", "u", "t">>
S_lock == <<"-", "-", "l", "o", "c", "k">>
S_porcelain == <<"-", "-", "p", "o", "r", "c", "e", "l", "a", "i", "n">>

Commands == {S_add, S_list, S_remove}

(***************************************************************************)
(* The static tables.                                                      *)
(***************************************************************************)
\* minimum git versions for worktree commands
git_worktree_versions ==
    (S_add :> <<2, 6, 7>>) @@ (S_list :> <<2, 7, 6>>) @@ (S_remove :> <<2, 17, 0>>)

\* minimum git versions for worktree command options
git_option_versions ==
    (S_add :> ((S_f :> <<2, 6, 7>>) @@ (S_checkout :> <<2, 9, 5>>)
               @@ (S_no_checkout :> <<2, 9, 5>>) @@ (S_lock :> <<2, 13, 7>>)))
    @@ (S_list :> (S_porcelain :> <<2, 7, 6>>))
    @@ (S_remove :> (S_f :> <<2, 17, 0>>))

\* option name -> value -> flag, each command's options in declaration order
git_worktree_flags ==
    (S_add :> << [name |-> "force", flag |-> [b \in BOOLEAN |-> IF b THEN S_f ELSE None]],
                 [name |-> "checkout", flag |-> [b \in BOOLEAN |-> IF b THEN None ELSE S_no_checkout]],
                 [name |-> "lock", flag |-> [b \in BOOLEAN |-> IF b THEN S_lock ELSE None]] >>)
    @@ (S_list :> << [name |-> "porcelain", flag |-> [b \in BOOLEAN |-> IF b THEN S_porcelain ELSE None]] >>)
    @@ (S_remove :> << [name |-> "force", flag |-> [b \in BOOLEAN |-> IF b THEN S_f ELSE None]] >>)

\* self.command_db = _git_worktree_flags
command_db == git_worktree_flags

\* `k in command_options`
has_option(command_options, k) ==
    \E i \in 1..Len(command_options) : command_options[i].name = k

\* `command_options[k]`
get_option(command_options, k) ==
    command_options[CHOOSE i \in 1..Len(command_options) : command_options[i].name = k].flag

(***************************************************************************)
(* Exceptions.                                                             *)
(***************************************************************************)
NoException == [type |-> "none", kind |-> "none", detail |-> <<>>]
GitError(kind, detail) == [type |-> "GitError", kind |-> kind, detail |-> detail]
AssertionError == [type |-> "AssertionError", kind |-> "assert", detail |-> <<>>]

(***************************************************************************)
(* CommandBuilder: parse_flags and prepare_subprocess_args.  kwargs is the *)
(* caller's keyword arguments, a sequence of <<name, value>> in the order  *)
(* the caller wrote them.                                                  *)
(***************************************************************************)
\* a builder that walks the command's table and looks each option up in kwargs
parse_flags_table_order(command, kwargs) ==
    LET opts == command_db[command]
        given(k) == \E i \in 1..Len(kwargs) : kwargs[i][1] = k
        value(k) == kwargs[CHOOSE i \in 1..Len(kwargs) : kwargs[i][1] = k][2]
        flags == [i \in 1..Len(opts) |->
                    IF given(opts[i].name) THEN opts[i].flag[value(opts[i].name)] ELSE None]
    IN  SelectSeq(flags, LAMBDA f : f # None)

RECURSIVE parse_flags(_, _)
parse_flags(command, kwargs) ==
    IF kwargs = <<>> THEN <<>>
    ELSE LET k == kwargs[1][1]
             v == kwargs[1][2]
             more == parse_flags(command, Tail(kwargs))
         IN  IF ~has_option(command_db[command], k) THEN more
             ELSE LET flag == get_option(command_db[command], k)[v]
                  IN  IF flag # None THEN <<flag>> \o more ELSE more

\* a builder that puts the flags before the positionals
prepare_subprocess_args_flags_first(command, args, kwargs) ==
    <<S_git, S_worktree, command>> \o parse_flags(command, kwargs) \o args

prepare_subprocess_args(command, args, kwargs) ==
    <<S_git, S_worktree, command>> \o args \o parse_flags(command, kwargs)

(***************************************************************************)
(* VersionGuard: feature_guard.                                            *)
(***************************************************************************)
\* Python's ordering of tuples: a < b
RECURSIVE tuple_lt(_, _)
tuple_lt(a, b) ==
    IF a = <<>> THEN b # <<>>
    ELSE IF b = <<>> THEN FALSE
    ELSE IF a[1] # b[1] THEN a[1] < b[1]
    ELSE tuple_lt(Tail(a), Tail(b))

startswith_dash(x) == Len(x) > 0 /\ x[1] = "-"

\* lfilter(lambda x: x.startswith("-"), rest)
lfilter_dash(rest) == SelectSeq(rest, startswith_dash)

\* a loop that lets every recognized flag replace the requirement
RECURSIVE guard_loop_last_wins(_, _, _)
guard_loop_last_wins(ks, options, acc) ==
    IF ks = <<>> THEN acc
    ELSE LET k == Head(ks)
         IN  IF k \in DOMAIN options
             THEN guard_loop_last_wins(Tail(ks), options,
                      [min_version |-> options[k], offender |-> k, of_type |-> "switch"])
             ELSE guard_loop_last_wins(Tail(ks), options, acc)

\* the loop of feature_guard; acc is (min_version, offender, of_type)
RECURSIVE guard_loop(_, _, _)
guard_loop(ks, options, acc) ==
    IF ks = <<>> THEN acc
    ELSE LET k == Head(ks)
         IN  IF k \in DOMAIN options /\ tuple_lt(acc.min_version, options[k])
             THEN guard_loop(Tail(ks), options,
                             [min_version |-> options[k], offender |-> k, of_type |-> "switch"])
             ELSE guard_loop(Tail(ks), options, acc)

\* `if installed < min_version: raise GitError(msg)`; msg names the command,
\* the minimum version, the offender and its type
guard_verdict(command, inst, fin) ==
    IF tuple_lt(inst, fin.min_version)
    THEN GitError("compat", [command |-> command, minimum |-> fin.min_version,
                             offender |-> fin.offender, of_type |-> fin.of_type])
    ELSE NoException

\* the exception feature_guard(command) raises, NoException when it returns
feature_guard(command, inst) ==
    guard_verdict(command, inst,
        guard_loop(lfilter_dash(SubSeq(command, 4, Len(command))),
                   git_option_versions[command[3]],
                   [min_version |-> git_worktree_versions[command[3]],
                    offender |-> command[3], of_type |-> "command"]))

(***************************************************************************)
(* String helpers of the Python runtime.                                   *)
(***************************************************************************)
\* str.split(sep): the pieces between separators, empty pieces kept
split_sep(x, sep) ==
    LET at == {i \in 1..Len(x) : x[i] = sep}
        \* the position of the k-th separator; 0 before the first, Len + 1 after the last
        pos(k) == IF k = 0 THEN 0
                  ELSE IF k > Cardinality(at) THEN Len(x) + 1
                  ELSE CHOOSE i \in at : Cardinality({j \in at : j < i}) = k - 1
    IN  [k \in 1..(Cardinality(at) + 1) |-> SubSeq(x, pos(k - 1) + 1, pos(k) - 1)]

nonempty(x) == x # <<>>

\* str.split(): the whitespace-delimited tokens
split_ws(x) == SelectSeq(split_sep(x, " "), nonempty)

\* str.splitlines(): a final line break opens no further line
splitlines(x) ==
    LET pieces == split_sep(x, "\n")
    IN  IF pieces[Len(pieces)] = <<>> THEN SubSeq(pieces, 1, Len(pieces) - 1) ELSE pieces

last(xs) == xs[Len(xs)]

RECURSIVE join(_, _)
join(xs, sep) ==
    IF xs = <<>> THEN <<>>
    ELSE IF Len(xs) = 1 THEN xs[1]
    ELSE xs[1] \o sep \o join(Tail(xs), sep)

\* str.replace("/", "-")
replace_slash(x) == [i \in 1..Len(x) |-> IF x[i] = "/" THEN "-" ELSE x[i]]

\* `value in x` for strings
contains(x, value) ==
    \E i \in 1..(Len(x) + 1) :
        i + Len(value) - 1 <= Len(x) /\ SubSeq(x, i, i + Len(value) - 1) = value

\* Path(x).name: the final path component
path_name(x) ==
    LET parts == SelectSeq(split_sep(x, "/"), nonempty)
    IN  IF parts = <<>> THEN <<>> ELSE last(parts)

\* Path(x).parent
path_parent(x) ==
    LET parts == SelectSeq(split_sep(x, "/"), nonempty)
    IN  IF Len(parts) <= 1 THEN <<"/">>
        ELSE <<"/">> \o join(SubSeq(parts, 1, Len(parts) - 1), <<"/">>)

\* dest_dir / worktree_id
path_join(dir, name) == IF last(dir) = "/" THEN dir \o name ELSE dir \o <<"/">> \o name

(***************************************************************************)
(* The external tool: git's worktree metadata and its porcelain listing.   *)
(* The store holds one entry per registered worktree, the main one first.  *)
(* An entry's shape says which lines the listing prints for it: "ok" the   *)
(* three lines worktree/HEAD/branch, "short" without the third, "long"     *)
(* with a fourth (`locked`).                                               *)
(***************************************************************************)
S_kw_worktree == S_worktree \o <<" ">>
S_kw_head == <<"H", "E", "A", "D", " ">>
S_kw_branch == <<"b", "r", "a", "n", "c", "h", " ">>
S_detached == <<"d", "e", "t", "a", "c", "h", "e", "d">>
S_locked == <<"l", "o", "c", "k", "e", "d">>
S_refs_heads == <<"r", "e", "f", "s", "/", "h", "e", "a", "d", "s", "/">>
S_fatal == <<"f", "a", "t", "a", "l">>

entry_lines(e) ==
    << S_kw_worktree \o e.root, S_kw_head \o e.commit >>
    \o (IF e.shape = "short" THEN <<>>
        ELSE IF e.label = S_detached THEN <<S_detached>>
        ELSE <<S_kw_branch \o e.label>>)
    \o (IF e.shape = "long" THEN <<S_locked>> ELSE <<>>)

\* every line is newline-terminated and every group is followed by a blank line
RECURSIVE porcelain(_)
porcelain(st) ==
    IF st = <<>> THEN <<>>
    ELSE join(entry_lines(st[1]), <<"\n">>) \o <<"\n", "\n">> \o porcelain(Tail(st))

(***************************************************************************)
(* Refs of the repository and the external collaborators.                  *)
(***************************************************************************)
S_main == <<"m", "a", "i", "n">>
S_v1 == <<"v", "1">>
S_fx == <<"f", "/", "x">>
S_sha_main == <<"a", "1", "f">>
S_sha_v1 == <<"b", "2", "e">>
S_sha_fx == <<"c", "3", "d">>

\* the repository's refs: name, kind and the commit each points to
Refs ==
    { [name |-> S_main, type |-> "branch", commit |-> S_sha_main],
      [name |-> S_v1, type |-> "tag", commit |-> S_sha_v1],
      [name |-> S_fx, type |-> "branch", commit |-> S_sha_fx] }

CommitIshs == {r.name : r \in Refs}

ref_of(name) == CHOOSE r \in Refs : r.name = name

\* resolve_ref(commit_ish, resolve_commits) -> (ref, ref_type)
resolve_ref(commit_ish, resolve_commits) ==
    IF resolve_commits
    THEN [ref |-> ref_of(commit_ish).commit, ref_type |-> "commit"]
    ELSE [ref |-> commit_ish, ref_type |-> ref_of(commit_ish).type]

S_root_main == <<"/", "r", "/", "p">>
S_root_a == <<"/", "r", "/", "a">>
\* a directory elsewhere whose final component is the main checkout's
S_root_qp == <<"/", "q", "/", "p">>

MainEntry ==
    [root |-> S_root_main, commit |-> S_sha_main,
     label |-> S_refs_heads \o S_main, shape |-> "ok"]

\* the main checkout may be on any branch of the repository
MainEntries ==
    { [MainEntry EXCEPT !.commit = r.commit, !.label = S_refs_heads \o r.name] :
        r \in {q \in Refs : q.type = "branch"} }

\* is_main_worktree(current_folder())
is_main_worktree(dir, st) == st # <<>> /\ dir = st[1].root

\* the entry `git worktree add <dest> <ref>` registers: a branch is checked
\* out by name, anything else leaves the new worktree detached
checkout_entry(dest, ref) ==
    IF \E r \in Refs : r.name = ref /\ r.type = "branch"
    THEN [root |-> dest, commit |-> ref_of(ref).commit,
          label |-> S_refs_heads \o ref, shape |-> "ok"]
    ELSE IF \E r \in Refs : r.name = ref
    THEN [root |-> dest, commit |-> ref_of(ref).commit, label |-> S_detached, shape |-> "ok"]
    ELSE [root |-> dest, commit |-> ref, label |-> S_detached, shape |-> "ok"]

\* what the external process does with `command` on the store when started;
\* ok is whether the environment lets it succeed
git_run(command, st, ok) ==
    LET wt_command == command[3]
        failed == [rc |-> 128, out |-> <<>>, err |-> S_fatal, store |-> st]
    IN  IF ~ok THEN failed
        ELSE IF wt_command = S_list
        THEN [rc |-> 0, out |-> porcelain(st), err |-> <<>>, store |-> st]
        ELSE IF wt_command = S_add
        THEN IF \/ Len(command) < 5
                \/ \E i \in 1..Len(st) : st[i].root = command[4]
             THEN failed
             ELSE [rc |-> 0, out |-> <<>>, err |-> <<>>,
                   store |-> Append(st, checkout_entry(command[4], command[5]))]
        ELSE IF \/ Len(command) < 4
                \/ ~\E i \in 2..Len(st) : st[i].root = command[4]
             THEN failed
             ELSE [rc |-> 0, out |-> <<>>, err |-> <<>>,
                   store |-> SelectSeq(st, LAMBDA e : e.root # command[4])]

\* run_subprocess(command, ex_type=GitError): a non-zero exit raises ex_type
\* with the captured error output
subprocess_result(r) ==
    [exc |-> IF r.rc # 0 THEN GitError("exit", r.err) ELSE NoException,
     rc |-> r.rc, output |-> r.out, store |-> r.store]

run_subprocess(command, st, ok) == subprocess_result(git_run(command, st, ok))

(***************************************************************************)
(* run_command: build, guard, run.  steps lists the token sequences handed *)
(* to the guard, each with whether its process was started.                *)
(***************************************************************************)
\* feature_guard raised g: run_subprocess is not reached
run_refused(command, g, st) ==
    [exc |-> g, rc |-> 0, output |-> <<>>, store |-> st,
     steps |-> << [command |-> command, started |-> FALSE, rc |-> 0] >>]

\* `return run_subprocess(command=command, ex_type=GitError)`
run_started(command, r) ==
    [exc |-> r.exc, rc |-> r.rc, output |-> r.output, store |-> r.store,
     steps |-> << [command |-> command, started |-> TRUE, rc |-> r.rc] >>]

\* a run_command that starts the subprocess before it looks at the guard
run_guarded_late(command, g, st, ok) ==
    IF g.type # "none"
    THEN [run_started(command, run_subprocess(command, st, ok)) EXCEPT !.exc = g]
    ELSE run_started(command, run_subprocess(command, st, ok))

\* `self.feature_guard(command)`, then the subprocess
run_guarded(command, g, st, ok) ==
    IF g.type # "none" THEN run_refused(command, g, st)
    ELSE run_started(command, run_subprocess(command, st, ok))

run_tokens(command, inst, st, ok) ==
    run_guarded(command, feature_guard(command, inst), st, ok)

run_command(wt_command, args, kwargs, inst, st, ok) ==
    run_tokens(prepare_subprocess_args(wt_command, args, kwargs), inst, st, ok)

(***************************************************************************)
(* WorktreeResolver: list_worktrees and get_worktree_by_attr.              *)
(***************************************************************************)
NoWorktree == [root |-> None, commit |-> None, label |-> None]

ParseError == [type |-> "ParseError", kind |-> "parse", detail |-> <<>>]

\* Worktree.from_list: a record of (root, commit id, ref label)
Worktree_from_list(wt_info) ==
    IF Len(wt_info) = 3
    THEN [exc |-> NoException,
          value |-> [root |-> wt_info[1], commit |-> wt_info[2], label |-> wt_info[3]]]
    ELSE [exc |-> ParseError, value |-> NoWorktree]

min(a, b) == IF a < b THEN a ELSE b

\* lfilter(lambda x: x != "", output.splitlines())
data_lines(output) == SelectSeq(splitlines(output), nonempty)

\* lmap(lambda x: x.split()[-1], attr_list)
last_tokens(lines) == [i \in 1..Len(lines) |-> last(split_ws(lines[i]))]

\* a grouping that steps by two while slicing three
chunks3_stride2(attr_list) ==
    [j \in 1..((Len(attr_list) + 1) \div 2) |->
        SubSeq(attr_list, 2 * (j - 1) + 1, min(2 * (j - 1) + 3, Len(attr_list)))]

\* [attr_list[i:i + 3] for i in range(0, len(attr_list), 3)]
chunks3(attr_list) ==
    [j \in 1..((Len(attr_list) + 2) \div 3) |->
        SubSeq(attr_list, 3 * (j - 1) + 1, min(3 * j, Len(attr_list)))]

\* lmap(Worktree.from_list, wt_list): the first failure leaves, if any
map_from_list(wt_list) ==
    IF \E j \in 1..Len(wt_list) : Worktree_from_list(wt_list[j]).exc.type # "none"
    THEN [exc |-> ParseError, value |-> <<>>]
    ELSE [exc |-> NoException,
          value |-> [j \in 1..Len(wt_list) |-> Worktree_from_list(wt_list[j]).value]]

\* the parsing of list_worktrees, from the output to the records
parse_listing(output) == map_from_list(chunks3(last_tokens(data_lines(output))))

list_parsed(steps, p) == [exc |-> p.exc, value |-> p.value, steps |-> steps]

list_listed(r) ==
    IF r.exc.type # "none" THEN [exc |-> r.exc, value |-> <<>>, steps |-> r.steps]
    ELSE list_parsed(r.steps, parse_listing(r.output))

list_worktrees(porcelain_flag, inst, st, ok) ==
    list_listed(run_command(S_list, <<>>, << <<"porcelain", porcelain_flag>> >>, inst, st, ok))

\* Worktree.get_ref_and_type(): the branch of a worktree on a branch, else
\* the tag that names the checked-out commit, else the commit id
get_ref_and_type(wt) ==
    IF wt.label # S_detached
    THEN [ref |-> IF Len(wt.label) > Len(S_refs_heads)
                     /\ SubSeq(wt.label, 1, Len(S_refs_heads)) = S_refs_heads
                  THEN SubSeq(wt.label, Len(S_refs_heads) + 1, Len(wt.label))
                  ELSE wt.label,
          ref_type |-> "branch"]
    ELSE IF \E r \in Refs : r.type = "tag" /\ r.commit = wt.commit
    THEN [ref |-> (CHOOSE r \in Refs : r.type = "tag" /\ r.commit = wt.commit).name,
          ref_type |-> "tag"]
    ELSE [ref |-> wt.commit, ref_type |-> "commit"]

Attrs == {"root", "commit", "branch", "tag"}

\* getattr(wt, attr): branch and tag read the worktree's ref label
getattr(wt, attr) ==
    IF attr = "root" THEN wt.root
    ELSE IF attr = "commit" THEN wt.commit
    ELSE wt.label

\* predicates that compare branch and tag names without regard to letter case
attr_check_fold_case(attr, value, x) ==
    IF attr = "root" THEN path_name(x) = path_name(value)
    ELSE IF attr = "commit" THEN contains(x, value)
    ELSE [i \in 1..Len(last(split_sep(x, "/"))) |->
            IF last(split_sep(x, "/"))[i] = "M" THEN "m" ELSE last(split_sep(x, "/"))[i]]
         = [i \in 1..Len(value) |-> IF value[i] = "M" THEN "m" ELSE value[i]]

\* predicates that take a branch or tag name for the tail of the ref label
attr_check_label_tail(attr, value, x) ==
    IF attr = "root" THEN path_name(x) = path_name(value)
    ELSE IF attr = "commit" THEN contains(x, value)
    ELSE /\ Len(x) > Len(value)
         /\ SubSeq(x, Len(x) - Len(value), Len(x)) = <<"/">> \o value

\* attr_checks[attr](x)
attr_check(attr, value, x) ==
    IF attr = "root" THEN path_name(x) = path_name(value)
    ELSE IF attr = "commit" THEN contains(x, value)
    ELSE last(split_sep(x, "/")) = value

\* a scan that keeps the last match of the listing
last_match(attr, value, worktrees) ==
    IF \E i \in 1..Len(worktrees) : attr_check(attr, value, getattr(worktrees[i], attr))
    THEN worktrees[CHOOSE i \in 1..Len(worktrees) :
                     /\ attr_check(attr, value, getattr(worktrees[i], attr))
                     /\ \A j \in (i + 1)..Len(worktrees) :
                           ~attr_check(attr, value, getattr(worktrees[j], attr))]
    ELSE NoWorktree

\* next(wt for wt in worktrees if match(getattr(wt, attr))), None on StopIteration
first_match(attr, value, worktrees) ==
    IF \E i \in 1..Len(worktrees) : attr_check(attr, value, getattr(worktrees[i], attr))
    THEN worktrees[CHOOSE i \in 1..Len(worktrees) :
                     /\ attr_check(attr, value, getattr(worktrees[i], attr))
                     /\ \A j \in 1..(i - 1) :
                           ~attr_check(attr, value, getattr(worktrees[j], attr))]
    ELSE NoWorktree

lookup_listed(attr, value, l) ==
    IF l.exc.type # "none" THEN [exc |-> l.exc, value |-> NoWorktree, steps |-> l.steps]
    ELSE [exc |-> NoException, value |-> first_match(attr, value, l.value), steps |-> l.steps]

get_worktree_by_attr(attr, value, inst, st, ok) ==
    lookup_listed(attr, value, list_worktrees(TRUE, inst, st, ok))

(***************************************************************************)
(* LifecycleManager: git_worktree_context, add_worktree, remove_worktree.  *)
(***************************************************************************)
\* what leaves the `with git_worktree_context(...)` block when its body
\* raised exc: the except clause handles a GitError and does not raise again
git_worktree_context(exc) == IF exc.type = "GitError" THEN NoException ELSE exc

\* a default destination that keeps the commit-ish as it is
default_destination_unescaped(commit_ish, current_directory, cip) ==
    path_join(IF cip THEN path_parent(current_directory) ELSE current_directory,
              join(<<path_name(current_directory), commit_ish>>, <<"@">>))

\* the destination add_worktree uses when none is given
default_destination(commit_ish, current_directory, cip) ==
    path_join(IF cip THEN path_parent(current_directory) ELSE current_directory,
              join(<<path_name(current_directory), replace_slash(commit_ish)>>, <<"@">>))

\* `if not destination: ...`
effective_destination(destination, commit_ish, current_directory, cip) ==
    IF destination = None THEN default_destination(commit_ish, current_directory, cip)
    ELSE destination

raised(exc, st, steps) == [exc |-> exc, value |-> NoWorktree, store |-> st, steps |-> steps]

returned(wt, st, steps) == [exc |-> NoException, value |-> wt, store |-> st, steps |-> steps]

\* `assert wt is not None`; `return wt`
add_found(steps, wt, st) ==
    IF wt.exc.type # "none" THEN raised(wt.exc, st, steps \o wt.steps)
    ELSE IF wt.value = NoWorktree THEN raised(AssertionError, st, steps \o wt.steps)
    ELSE returned(wt.value, st, steps \o wt.steps)

\* after the with block: `wt = self.get_worktree_by_attr("root", destination)`
add_left(steps, dest, left, st, inst, ok) ==
    IF left.type # "none" THEN raised(left, st, steps)
    ELSE add_found(steps, get_worktree_by_attr("root", dest, inst, st, ok), st)

\* the with block around run_command("add", ...)
add_invoked(steps, dest, ad, inst, ok) ==
    add_left(steps \o ad.steps, dest, git_worktree_context(ad.exc), ad.store, inst, ok)

\* the duplicate check, then the add
add_checked(ref, lk, dest, force, checkout, lock, inst, st, oks) ==
    IF lk.exc.type # "none" THEN raised(lk.exc, st, lk.steps)
    ELSE IF lk.value # NoWorktree THEN raised(GitError("duplicate", <<>>), st, lk.steps)
    ELSE add_invoked(lk.steps, dest,
             run_command(S_add, <<dest, ref>>,
                         << <<"force", force>>, <<"checkout", checkout>>, <<"lock", lock>> >>,
                         inst, st, oks[2]),
             inst, oks[3])

\* an add_worktree that never looks for an existing worktree of the ref
add_resolved_no_lookup(rr, dest, force, checkout, lock, inst, st, oks) ==
    add_checked(rr.ref, [exc |-> NoException, value |-> NoWorktree, steps |-> <<>>],
                dest, force, checkout, lock, inst, st, oks)

\* `if not force and self.get_worktree_by_attr(ref_type, ref) is not None`
add_resolved(rr, dest, force, checkout, lock, inst, st, oks) ==
    add_checked(rr.ref,
        IF force THEN [exc |-> NoException, value |-> NoWorktree, steps |-> <<>>]
        ELSE get_worktree_by_attr(rr.ref_type, rr.ref, inst, st, oks[1]),
        dest, force, checkout, lock, inst, st, oks)

\* oks: whether the environment lets the lookup's listing, the add and the
\* final listing succeed
add_worktree(commit_ish, destination, force, checkout, lock, resolve_commits, current_directory, cip, inst, st, oks) ==
    IF ~is_main_worktree(current_directory, st)
    THEN raised(GitError("norepo", <<>>), st, <<>>)
    ELSE add_resolved(resolve_ref(commit_ish, resolve_commits),
             effective_destination(destination, commit_ish, current_directory, cip),
             force, checkout, lock, inst, st, oks)

\* directories that exist on disk whether or not a worktree is registered
\* there
ExistingDirectories == {S_root_a}

\* disambiguate_info(info): the attribute the identifier names, "none" if
\* none; an existing path names a root
disambiguate_info(info, st) ==
    IF info \in ExistingDirectories \/ \E i \in 1..Len(st) : st[i].root = info THEN "root"
    ELSE IF \E i \in 1..Len(st) : contains(st[i].commit, info) THEN "commit"
    ELSE IF \E i \in 1..Len(st) :
              st[i].label # S_detached /\ last(split_sep(st[i].label, "/")) = info
    THEN "branch"
    ELSE "none"

\* the with block around run_command("remove", ...); `return wt`
remove_invoked(steps, wt, rm) ==
    IF git_worktree_context(rm.exc).type # "none"
    THEN raised(git_worktree_context(rm.exc), rm.store, steps \o rm.steps)
    ELSE returned(wt, rm.store, steps \o rm.steps)

\* a removal that does not look at what the lookup returned
remove_found_unchecked(wt, force, inst, st, ok) ==
    IF wt.exc.type # "none" THEN raised(wt.exc, st, wt.steps)
    ELSE remove_invoked(wt.steps, wt.value,
             run_command(S_remove, <<wt.value.root>>, << <<"force", force>> >>, inst, st, ok))

\* `if wt is None: raise GitError(...)`
remove_found(wt, force, inst, st, ok) ==
    IF wt.exc.type # "none" THEN raised(wt.exc, st, wt.steps)
    ELSE IF wt.value = NoWorktree THEN raised(GitError("notfound", <<>>), st, wt.steps)
    ELSE remove_invoked(wt.steps, wt.value,
             run_command(S_remove, <<wt.value.root>>, << <<"force", force>> >>, inst, st, ok))

\* `if not attr: raise GitError(...)`
remove_named(attr, info, force, inst, st, oks) ==
    IF attr = "none" THEN raised(GitError("unrecognized", <<>>), st, <<>>)
    ELSE remove_found(get_worktree_by_attr(attr, info, inst, st, oks[1]),
                      force, inst, st, oks[2])

\* a remove_worktree without the main-checkout precondition
remove_worktree_anywhere(info, force, current_directory, inst, st, oks) ==
    remove_named(disambiguate_info(info, st), info, force, inst, st, oks)

\* oks: whether the environment lets the lookup's listing and the remove succeed
remove_worktree(info, force, current_directory, inst, st, oks) ==
    IF ~is_main_worktree(current_directory, st)
    THEN raised(GitError("norepo", <<>>), st, <<>>)
    ELSE remove_named(disambiguate_info(info, st), info, force, inst, st, oks)

(***************************************************************************)
(* Bounds and input sets.                                                  *)
(***************************************************************************)
\* worktrees registered beside the main one
MaxWorktrees == 1
\* keyword arguments of one direct run_command call
MaxKwargs == 3
\* record groups of a listing fixture
MaxGroups == 2

\* installed git versions around the tables' thresholds
GuardVersions ==
    { <<1, 20, 20>>, <<2, 6, 6>>, <<2, 6, 7>>, <<2, 7, 6>>, <<2, 9, 5>>, <<2, 10, 0>>,
      <<2, 13, 7>>, <<2, 16, 9>>, <<2, 17, 0>>, <<3, 0, 0>> }

LifecycleVersions == { <<2, 6, 7>>, <<2, 9, 5>>, <<2, 17, 0>> }

OptionNames == {"force", "checkout", "lock", "porcelain"}

\* keyword arguments in every order the caller may write them
KwargSeqs ==
    UNION { { kw \in [1..n -> OptionNames \X BOOLEAN] :
                \A i, j \in 1..n : i # j => kw[i][1] # kw[j][1] } : n \in 0..MaxKwargs }

ArgsFor(wt_command) ==
    IF wt_command = S_add THEN <<S_root_a, S_main>>
    ELSE IF wt_command = S_remove THEN <<S_root_a>>
    ELSE <<>>

Destinations == {None, S_root_a, S_root_qp}

\* the main checkout and a directory that is not it
Directories == {S_root_main, S_root_a}

Identifiers == {S_root_a, S_root_qp, S_main, S_fx, S_v1, S_sha_fx}

\* listing fixtures: groups of every shape
FixtureEntries ==
    { [root |-> r, commit |-> S_sha_main, label |-> l, shape |-> sh] :
        r \in {S_root_main, S_root_a}, l \in {S_refs_heads \o S_main, S_detached},
        sh \in {"ok", "short", "long"} }

Fixtures == UNION { [1..n -> FixtureEntries] : n \in 0..MaxGroups }

S_Main == <<"M", "a", "i", "n">>
S_x == <<"x">>
S_a == <<"a">>

\* lookup fixtures: well-formed listings of worktrees at distinct roots, with
\* one branch in several worktrees, branch names that differ by letter case
\* only, a branch name with a slash and detached worktrees
LookupEntries ==
    { [root |-> r, commit |-> cl[1], label |-> cl[2], shape |-> "ok"] :
        r \in {S_root_main, S_root_a, S_root_qp},
        cl \in { <<S_sha_main, S_refs_heads \o S_main>>, <<S_sha_v1, S_refs_heads \o S_Main>>,
                 <<S_sha_fx, S_refs_heads \o S_fx>>, <<S_sha_v1, S_detached>> } }

LookupFixtures ==
    UNION { { st \in [1..n -> LookupEntries] :
                \A i, j \in 1..n : i # j => st[i].root # st[j].root } : n \in 0..MaxGroups }

\* values looked up: paths, a bare directory name, branch names, a full
\* ref label, a commit id
LookupValues ==
    { S_root_a, S_root_qp, S_a, S_main, S_Main, S_fx, S_x, S_refs_heads \o S_fx, S_sha_v1 }

NoCall == [op |-> "none"]
NoResult == [exc |-> NoException, value |-> <<>>]

(***************************************************************************)
(* Initial states.                                                         *)
(***************************************************************************)
Init ==
    /\ installed \in LifecycleVersions
    /\ create_in_parent \in BOOLEAN
    /\ store \in {<<m>> : m \in MainEntries}
    /\ call = NoCall
    /\ result = NoResult
    /\ trace = <<>>

InitGuard ==
    /\ installed \in GuardVersions
    /\ create_in_parent = TRUE
    /\ store = <<MainEntry>>
    /\ call = NoCall
    /\ result = NoResult
    /\ trace = <<>>

InitList ==
    /\ installed \in {<<2, 6, 7>>, <<2, 17, 0>>}
    /\ create_in_parent = TRUE
    /\ store \in Fixtures
    /\ call = NoCall
    /\ result = NoResult
    /\ trace = <<>>

InitLookup ==
    /\ installed \in {<<2, 6, 7>>, <<2, 17, 0>>}
    /\ create_in_parent = TRUE
    /\ store \in LookupFixtures
    /\ call = NoCall
    /\ result = NoResult
    /\ trace = <<>>

(***************************************************************************)
(* Operations.                                                             *)
(***************************************************************************)
\* a direct call of run_command
RunCommand ==
    /\ call = NoCall
    /\ \E wt_command \in Commands, kwargs \in KwargSeqs, ok \in BOOLEAN :
        LET r == run_command(wt_command, ArgsFor(wt_command), kwargs, installed, store, ok)
        IN  /\ call' = [op |-> "run_command", wt_command |-> wt_command,
                        args |-> ArgsFor(wt_command), kwargs |-> kwargs, before |-> store]
            /\ result' = [exc |-> r.exc, value |-> <<r.rc, r.output>>]
            /\ store' = r.store
            /\ trace' = r.steps
    /\ UNCHANGED <<installed, create_in_parent>>

ListWorktrees ==
    /\ call = NoCall
    /\ \E ok \in BOOLEAN :
        LET r == list_worktrees(TRUE, installed, store, ok)
        IN  /\ call' = [op |-> "list", before |-> store]
            /\ result' = [exc |-> r.exc, value |-> r.value]
            /\ trace' = r.steps
    /\ UNCHANGED <<installed, create_in_parent, store>>

\* a direct call of get_worktree_by_attr
GetWorktreeByAttr ==
    /\ call = NoCall
    /\ \E attr \in Attrs, value \in LookupValues, ok \in BOOLEAN :
        LET r == get_worktree_by_attr(attr, value, installed, store, ok)
        IN  /\ call' = [op |-> "lookup", attr |-> attr, value |-> value, before |-> store]
            /\ result' = [exc |-> r.exc, value |-> r.value]
            /\ trace' = r.steps
    /\ UNCHANGED <<installed, create_in_parent, store>>

Create ==
    /\ call = NoCall
    /\ Len(store) < 1 + MaxWorktrees
    /\ \E commit_ish \in CommitIshs, destination \in Destinations,
          force \in BOOLEAN, checkout \in BOOLEAN, lock \in BOOLEAN,
          resolve_commits \in BOOLEAN, cwd \in Directories, oks \in [1..3 -> BOOLEAN] :
        LET r == add_worktree(commit_ish, destination, force, checkout, lock,
                              resolve_commits, cwd, create_in_parent, installed, store, oks)
        IN  /\ call' = [op |-> "create", commit_ish |-> commit_ish,
                        destination |-> destination, force |-> force,
                        checkout |-> checkout, lock |-> lock,
                        resolve_commits |-> resolve_commits, cwd |-> cwd, before |-> store]
            /\ result' = [exc |-> r.exc, value |-> r.value]
            /\ store' = r.store
            /\ trace' = r.steps
    /\ UNCHANGED <<installed, create_in_parent>>

Remove ==
    /\ call = NoCall
    /\ \E info \in Identifiers, force \in BOOLEAN, cwd \in Directories,
          oks \in [1..2 -> BOOLEAN] :
        LET r == remove_worktree(info, force, cwd, installed, store, oks)
        IN  /\ call' = [op |-> "remove", info |-> info, force |-> force, cwd |-> cwd,
                        before |-> store]
            /\ result' = [exc |-> r.exc, value |-> r.value]
            /\ store' = r.store
            /\ trace' = r.steps
    /\ UNCHANGED <<installed, create_in_parent>>

\* the caller takes the outcome; the wrapper keeps nothing between calls
Return ==
    /\ call # NoCall
    /\ call' = NoCall
    /\ result' = NoResult
    /\ trace' = <<>>
    /\ UNCHANGED <<installed, create_in_parent, store>>

Next == Create \/ Remove \/ ListWorktrees \/ GetWorktreeByAttr \/ Return

Spec == Init /\ [][Next]_vars

NextGuard == RunCommand \/ Return

SpecGuard == InitGuard /\ [][NextGuard]_vars

NextList == ListWorktrees \/ Return

SpecList == InitList /\ [][NextList]_vars

NextLookup == GetWorktreeByAttr \/ Return

SpecLookup == InitLookup /\ [][NextLookup]_vars

(***************************************************************************)
(* Vocabulary of the properties, stated apart from the operators above.    *)
(***************************************************************************)
\* (major, minor, micro) order
VersionLess(a, b) ==
    \/ a[1] < b[1]
    \/ a[1] = b[1] /\ a[2] < b[2]
    \/ a[1] = b[1] /\ a[2] = b[2] /\ a[3] < b[3]

\* the minimum versions a token sequence binds: its command's and those of
\* the command's options among its tokens
RequiredVersions(command) ==
    {git_worktree_versions[command[3]]}
    \cup { git_option_versions[command[3]][command[i]] :
             i \in {j \in 4..Len(command) : command[j] \in DOMAIN git_option_versions[command[3]]} }

BindingMinimum(command) ==
    CHOOSE v \in RequiredVersions(command) :
        \A w \in RequiredVersions(command) : ~VersionLess(v, w)

\* the tokens after `git worktree <command> <positionals>`
FlagTokens(command, args) == SubSeq(command, 4 + Len(args), Len(command))

\* the flag an option value stands for, None for no flag
FlagFor(wt_command, name, value) ==
    IF wt_command = S_add /\ name = "force" /\ value THEN S_f
    ELSE IF wt_command = S_add /\ name = "checkout" /\ ~value THEN S_no_checkout
    ELSE IF wt_command = S_add /\ name = "lock" /\ value THEN S_lock
    ELSE IF wt_command = S_list /\ name = "porcelain" /\ value THEN S_porcelain
    ELSE IF wt_command = S_remove /\ name = "force" /\ value THEN S_f
    ELSE None

\* the declaration order of the flag table
DeclaredOptions(wt_command) ==
    IF wt_command = S_add THEN <<"force", "checkout", "lock">>
    ELSE IF wt_command = S_list THEN <<"porcelain">>
    ELSE <<"force">>

CallerOrderFlags(wt_command, kwargs) ==
    SelectSeq([i \in 1..Len(kwargs) |-> FlagFor(wt_command, kwargs[i][1], kwargs[i][2])],
              nonempty)

TableOrderFlags(wt_command, kwargs) ==
    LET names == DeclaredOptions(wt_command)
        flag(k) == IF \E i \in 1..Len(kwargs) : kwargs[i][1] = k
                   THEN FlagFor(wt_command, k,
                                kwargs[CHOOSE i \in 1..Len(kwargs) : kwargs[i][1] = k][2])
                   ELSE None
    IN  SelectSeq([i \in 1..Len(names) |-> flag(names[i])], nonempty)

Range(f) == {f[i] : i \in DOMAIN f}

(***************************************************************************)
(* Properties of the guard and the builder, under SpecGuard.               *)
(***************************************************************************)
\* C1: whenever the installed version is lower than the binding minimum of
\* the token sequence run_command built, run_command fails with the
\* compatibility error, the process is not started for that sequence and
\* the tool's store is as before.
C1_GuardBeforeProcess ==
    call.op = "run_command" =>
        (VersionLess(installed, BindingMinimum(trace[1].command)) =>
            /\ Len(trace) = 1
            /\ ~trace[1].started
            /\ result.exc.type = "GitError" /\ result.exc.kind = "compat"
            /\ store = call.before)

\* C1 witness: an add with flags refused on a git that is too old for them
C1_Witness ==
    /\ call.op = "run_command"
    /\ call.wt_command = S_add
    /\ S_lock \in Range(trace[1].command)
    /\ VersionLess(installed, BindingMinimum(trace[1].command))
    /\ ~VersionLess(installed, git_worktree_versions[S_add])
    /\ result.exc.kind = "compat"
    /\ ~trace[1].started

\* C3: the guard raises exactly when the installed version is below the
\* greatest of the command's minimum and the minimums of the recognized
\* flags among the tokens, in (major, minor, micro) order; the installed
\* version equal to it passes; and the error names that greatest minimum,
\* whatever the order of the flags.
C3_GuardIsMaximum ==
    call.op = "run_command" =>
        /\ (result.exc.kind = "compat"
              <=> VersionLess(installed, BindingMinimum(trace[1].command)))
        /\ (installed = BindingMinimum(trace[1].command) => trace[1].started)
        /\ (result.exc.kind = "compat"
              => result.exc.detail.minimum = BindingMinimum(trace[1].command))

\* C3 witness: the installed version equals the requirement of a flag that
\* is not the last flag of the tokens and exceeds the command's, and passes
C3_Witness ==
    /\ call.op = "run_command"
    /\ call.wt_command = S_add
    /\ FlagTokens(trace[1].command, call.args) = <<S_lock, S_no_checkout, S_f>>
    /\ installed = <<2, 13, 7>>
    /\ trace[1].started
    /\ result.exc.type = "none"

Emitting(kwargs) ==
    {i \in 1..Len(kwargs) :
        \/ kwargs[i] = <<"force", TRUE>>
        \/ kwargs[i] = <<"checkout", FALSE>>
        \/ kwargs[i] = <<"lock", TRUE>>}

\* C17: the tokens of an add are git worktree add, the positionals as given
\* (destination, then ref), then one flag for each of force=true (-f),
\* checkout=false (--no-checkout) and lock=true (--lock) among the options
\* and nothing else: force=false, checkout=true, lock=false and options
\* that the add table does not have give no token.
C17_AddTokens ==
    (call.op = "run_command" /\ call.wt_command = S_add) =>
        /\ SubSeq(trace[1].command, 1, 5) = <<S_git, S_worktree, S_add, S_root_a, S_main>>
        /\ Len(trace[1].command) = 5 + Cardinality(Emitting(call.kwargs))
        /\ \A i \in 1..Len(call.kwargs) :
              /\ call.kwargs[i] = <<"force", TRUE>> => S_f \in Range(FlagTokens(trace[1].command, call.args))
              /\ call.kwargs[i] = <<"checkout", FALSE>>
                    => S_no_checkout \in Range(FlagTokens(trace[1].command, call.args))
              /\ call.kwargs[i] = <<"lock", TRUE>>
                    => S_lock \in Range(FlagTokens(trace[1].command, call.args))

\* C17 witness: an option of another command's table among the options of
\* an add, and an option whose value stands for no flag
C17_Witness ==
    /\ call.op = "run_command"
    /\ call.wt_command = S_add
    /\ call.kwargs = << <<"porcelain", TRUE>>, <<"lock", TRUE>>, <<"checkout", TRUE>> >>
    /\ trace[1].command = <<S_git, S_worktree, S_add, S_root_a, S_main, S_lock>>

(***************************************************************************)
(* Properties of the lifecycle, under Spec.                                *)
(***************************************************************************)
\* the steps of the last call that ran `git worktree <wt_command>`
StepsOf(wt_command) == {i \in DOMAIN trace : trace[i].command[3] = wt_command}

\* an option of the step's command, among its tokens, that the installed
\* git is too old for
TooOldOption(command) ==
    \E j \in 4..Len(command) :
        /\ command[j] \in DOMAIN git_option_versions[command[3]]
        /\ VersionLess(installed, git_option_versions[command[3]][command[j]])

\* C2: whenever create, list or remove builds an invocation with an option
\* whose table minimum exceeds the installed version, the process is not
\* started and the caller gets the compatibility error of that invocation,
\* carrying its required version.
C2_CompatibilityReachesCaller ==
    call.op \in {"create", "list", "remove"} =>
        \A i \in DOMAIN trace :
            TooOldOption(trace[i].command) =>
                /\ ~trace[i].started
                /\ result.exc.type = "GitError" /\ result.exc.kind = "compat"
                /\ result.exc.detail.command = trace[i].command
                /\ result.exc.detail.minimum = BindingMinimum(trace[i].command)

\* C4: create issues the add at most once, and when the add process exits
\* non-zero create fails with the external-command error carrying the
\* captured error output.
C4_AddFailureReachesCaller ==
    call.op = "create" =>
        /\ Cardinality(StepsOf(S_add)) <= 1
        /\ \A i \in StepsOf(S_add) :
              (trace[i].started /\ trace[i].rc # 0) =>
                  /\ result.exc.type = "GitError" /\ result.exc.kind = "exit"
                  /\ result.exc.detail = S_fatal

\* C5: when the remove invocation fails, by the guard or by a non-zero exit,
\* remove raises that error and returns no worktree.
C5_RemoveFailureReachesCaller ==
    call.op = "remove" =>
        \A i \in StepsOf(S_remove) :
            (~trace[i].started \/ trace[i].rc # 0) =>
                /\ result.exc.type = "GitError"
                /\ result.exc.kind = (IF trace[i].started THEN "exit" ELSE "compat")
                /\ result.value = NoWorktree

\* the part of x after its last "/"
LastSegment(x) ==
    LET at == {i \in 1..Len(x) : x[i] = "/"}
    IN  IF at = {} THEN x
        ELSE SubSeq(x, 1 + (CHOOSE i \in at : \A j \in at : j <= i), Len(x))

\* a registered worktree that the lookup of (ref_type, ref) matches
EntryMatches(e, ref_type, ref) ==
    IF ref_type = "commit"
    THEN \E i \in 1..Len(e.commit) : \E j \in i..Len(e.commit) : SubSeq(e.commit, i, j) = ref
    ELSE LastSegment(e.label) = ref

Checked(commit_ish, resolve_commits, st) ==
    \E i \in 1..Len(st) :
        EntryMatches(st[i], resolve_ref(commit_ish, resolve_commits).ref_type,
                     resolve_ref(commit_ish, resolve_commits).ref)

\* C6: a create from the main checkout with force=false whose listing was
\* obtained raises the duplicate error exactly when a listed worktree
\* matches the resolved (ref type, ref), and then never invokes the add and
\* leaves the store alone; with force=true no listing precedes the add: the
\* first invocation create builds is the add, also when a match exists.
C6_DuplicateUnlessForced ==
    (call.op = "create" /\ call.cwd = call.before[1].root) =>
        /\ (~call.force /\ Len(trace) >= 1 /\ trace[1].started /\ trace[1].rc = 0) =>
              /\ trace[1].command[3] = S_list
              /\ Checked(call.commit_ish, call.resolve_commits, call.before)
                    <=> (result.exc.type = "GitError" /\ result.exc.kind = "duplicate")
              /\ result.exc.kind = "duplicate" => (StepsOf(S_add) = {} /\ store = call.before)
        /\ call.force =>
              /\ Len(trace) >= 1
              /\ trace[1].command[3] = S_add
              /\ result.exc.kind # "duplicate"

\* C6 witness: branch main, checked out in the main worktree, asked for again
C6_Witness ==
    /\ call.op = "create"
    /\ ~call.force
    /\ call.commit_ish = S_main
    /\ ~call.resolve_commits
    /\ result.exc.kind = "duplicate"
    /\ StepsOf(S_add) = {}

\* C7: create and remove from a directory that is not the main checkout
\* raise the not-a-repository error whatever the other arguments, with no
\* invocation built at all and the store as before.
C7_MainCheckoutOnly ==
    (call.op \in {"create", "remove"} /\ call.cwd # call.before[1].root) =>
        /\ result.exc.type = "GitError" /\ result.exc.kind = "norepo"
        /\ trace = <<>>
        /\ store = call.before

\* C7 witness: a remove of a registered worktree, forced, from elsewhere
C7_Witness ==
    /\ call.op = "remove"
    /\ call.cwd # call.before[1].root
    /\ Len(call.before) = 2
    /\ call.info = call.before[2].root
    /\ call.force
    /\ result.exc.kind = "norepo"

\* the add of the last create was started and exited with 0
AddSucceeded == \E i \in StepsOf(S_add) : trace[i].started /\ trace[i].rc = 0

\* C13: after a create with a destination D whose add succeeded, for a
\* commit-ish resolved by name to (ref, ref type), a root lookup of D that
\* obtains its listing yields a worktree, and its ref and ref type are that
\* ref and ref type (the tag v1 gives a worktree of tag v1), whatever else
\* is listed.
C13_RoundTrip ==
    (call.op = "create" /\ call.destination # None /\ ~call.resolve_commits /\ AddSucceeded) =>
        (get_worktree_by_attr("root", call.destination, installed, store, TRUE).exc.type = "none" =>
            /\ get_worktree_by_attr("root", call.destination, installed, store, TRUE).value
                  # NoWorktree
            /\ get_ref_and_type(
                  get_worktree_by_attr("root", call.destination, installed, store, TRUE).value)
                  = resolve_ref(call.commit_ish, call.resolve_commits))

\* no listed worktree has the identifier as any of its attributes
NothingListedFor(info, st) ==
    \A i \in 1..Len(st) : \A a \in {"root", "commit", "branch", "tag"} :
        ~(IF a = "root" THEN LastSegment(st[i].root) = LastSegment(info)
          ELSE EntryMatches(st[i], a, info))

\* C14: a remove from the main checkout of an identifier that no listed
\* worktree has as an attribute, the listing obtained if one was asked for,
\* raises the error of an unrecognized identifier or of a worktree that
\* does not exist, builds no remove invocation and leaves the store alone.
C14_NotFoundBeforeRemove ==
    (/\ call.op = "remove"
     /\ call.cwd = call.before[1].root
     /\ NothingListedFor(call.info, call.before)
     /\ trace # <<>> => (trace[1].started /\ trace[1].rc = 0)) =>
        /\ result.exc.type = "GitError"
        /\ result.exc.kind \in {"unrecognized", "notfound"}
        /\ result.value = NoWorktree
        /\ StepsOf(S_remove) = {}
        /\ store = call.before

\* C14 witness: an existing directory that is no worktree is taken for a
\* root, the listing has no worktree of that name
C14_Witness ==
    /\ call.op = "remove"
    /\ call.cwd = call.before[1].root
    /\ call.info = S_root_a
    /\ NothingListedFor(call.info, call.before)
    /\ Len(trace) = 1
    /\ trace[1].command[3] = S_list
    /\ trace[1].started
    /\ result.exc.kind = "notfound"
    /\ store = call.before

(***************************************************************************)
(* Properties of the listing parser, under SpecList.                       *)
(***************************************************************************)
WellFormed(st) == \A i \in 1..Len(st) : st[i].shape = "ok"

Listed == call.op = "list" /\ Len(trace) = 1 /\ trace[1].started /\ trace[1].rc = 0

\* C9: a listing of N three-line groups gives N records, the i-th with the
\* root, commit id and ref label of the i-th group.
C9_RecordsInListingOrder ==
    (Listed /\ WellFormed(store)) =>
        /\ result.exc.type = "none"
        /\ Len(result.value) = Len(store)
        /\ \A i \in 1..Len(store) :
              result.value[i] = [root |-> store[i].root, commit |-> store[i].commit,
                                 label |-> store[i].label]

\* C9 witness: two groups that differ in root and in ref label
C9_Witness ==
    /\ Listed
    /\ WellFormed(store)
    /\ Len(store) = 2
    /\ store[1].root # store[2].root
    /\ store[1].label # S_detached
    /\ store[2].label = S_detached
    /\ result.exc.type = "none"
    /\ Len(result.value) = 2

\* C10: a listing with a group that is not of three data items fails with
\* the parse error.
C10_MalformedGroupFails ==
    (Listed /\ ~WellFormed(store)) => result.exc.type = "ParseError"

(***************************************************************************)
(* Properties of get_worktree_by_attr, under SpecLookup.                   *)
(***************************************************************************)
\* a direct lookup whose listing was obtained
LookupDone == call.op = "lookup" /\ Len(trace) = 1 /\ trace[1].started /\ trace[1].rc = 0

\* the listed worktree e has the attribute value asked for
Matches(e, attr, value) ==
    IF attr = "root" THEN LastSegment(e.root) = LastSegment(value)
    ELSE EntryMatches(e, attr, value)

Hits == {i \in 1..Len(store) : Matches(store[i], call.attr, call.value)}

RecordOf(e) == [root |-> e.root, commit |-> e.commit, label |-> e.label]

\* C11: a lookup whose listing was obtained raises nothing, also when
\* several listed worktrees match; it returns the record of the first
\* matching worktree in listing order, and None when none matches.
C11_FirstMatchInListingOrder ==
    LookupDone =>
        /\ result.exc.type = "none"
        /\ IF Hits = {} THEN result.value = NoWorktree
           ELSE result.value = RecordOf(store[CHOOSE i \in Hits : \A j \in Hits : i <= j])

\* C11 witness: two worktrees on one branch, the first of them returned
C11_Witness ==
    /\ LookupDone
    /\ call.attr = "branch"
    /\ Hits = {1, 2}
    /\ RecordOf(store[1]) # RecordOf(store[2])
    /\ result.exc.type = "none"
    /\ result.value = RecordOf(store[1])

\* C12: a branch lookup returns a worktree only if the part of its ref label
\* after the last "/" is the value, character for character, and returns
\* None exactly when no listed label has the value as that part; a label
\* whose last part is the value in another letter case is no match.
C12_BranchFinalSegmentExact ==
    (LookupDone /\ call.attr = "branch") =>
        /\ (result.value # NoWorktree
              <=> \E i \in 1..Len(store) : LastSegment(store[i].label) = call.value)
        /\ result.value # NoWorktree => LastSegment(result.value.label) = call.value

\* C12 witness: refs/heads/Main is listed and refs/heads/main is not; "main"
\* finds nothing
C12_Witness ==
    /\ LookupDone
    /\ call.attr = "branch"
    /\ call.value = S_main
    /\ \E i \in 1..Len(store) : store[i].label = S_refs_heads \o S_Main
    /\ result.value = NoWorktree

(***************************************************************************)
(* Properties of the destination and of the worktrees' presence, under     *)
(* Spec.                                                                   *)
(***************************************************************************)
\* the commit-ishs of the repository with "-" for "/"
Dashed(commit_ish) == IF commit_ish = S_fx THEN <<"f", "-", "x">> ELSE commit_ish

\* <name of the main checkout>@<dashed commit-ish>, beside the main
\* checkout /r/p or inside it
DefaultDestination ==
    (IF create_in_parent THEN <<"/", "r", "/">> ELSE <<"/", "r", "/", "p", "/">>)
    \o <<"p", "@">> \o Dashed(call.commit_ish)

RequestedDestination ==
    IF call.destination = None THEN DefaultDestination ELSE call.destination

\* C15: a create that returns normally returns a worktree, never None, and
\* the root of that worktree is the destination, also when another listed
\* worktree has a root with the same final path component.
C15_ReturnedIsAtDestination ==
    (call.op = "create" /\ result.exc.type = "none") =>
        /\ result.value # NoWorktree
        /\ result.value.root = RequestedDestination

\* C16: after a create that returns normally the destination is a listed
\* worktree; after a remove that returns normally the returned record is
\* one that was listed before the call and no worktree is listed at its
\* root any more.
C16_AbsentOrPresent ==
    /\ (call.op = "create" /\ result.exc.type = "none") =>
          \E i \in 1..Len(store) : store[i].root = RequestedDestination
    /\ (call.op = "remove" /\ result.exc.type = "none") =>
          /\ \E i \in 1..Len(call.before) : RecordOf(call.before[i]) = result.value
          /\ \A i \in 1..Len(store) : store[i].root # result.value.root

\* C18: a create without a destination hands git the destination
\* <name of the current checkout>@<commit-ish with "-" for "/">, in the
\* parent of the current checkout when create_in_parent is set and in the
\* current checkout when not, whatever is listed.
C18_DefaultDestination ==
    (call.op = "create" /\ call.destination = None) =>
        \A i \in StepsOf(S_add) :
            /\ trace[i].command[4] = DefaultDestination
            /\ trace[i].command[5] = resolve_ref(call.commit_ish, call.resolve_commits).ref

\* C18 witness: branch f/x, beside the main checkout
C18_Witness ==
    /\ call.op = "create"
    /\ call.destination = None
    /\ call.commit_ish = S_fx
    /\ create_in_parent
    /\ \E i \in StepsOf(S_add) :
          /\ trace[i].started
          /\ trace[i].command[4] = <<"/", "r", "/", "p", "@", "f", "-", "x">>

(***************************************************************************)
(* Properties of names with a "/", under Spec.                             *)
(***************************************************************************)
HasSlash(x) == \E i \in 1..Len(x) : x[i] = "/"

\* C19: a branch or tag lookup of a value with a "/" that obtains its
\* listing returns None, also when a listed ref label is refs/heads/<value>;
\* and a create from the main checkout without force, for a branch or tag
\* whose name has a "/", whose listing was obtained, never raises the
\* duplicate error, also when that branch is checked out in a listed
\* worktree.
C19_SlashNeverMatches ==
    /\ (LookupDone /\ call.attr \in {"branch", "tag"} /\ HasSlash(call.value)) =>
          (result.exc.type = "none" /\ result.value = NoWorktree)
    /\ (/\ call.op = "create"
        /\ call.cwd = call.before[1].root
        /\ ~call.force
        /\ ~call.resolve_commits
        /\ HasSlash(call.commit_ish)
        /\ Len(trace) >= 1 /\ trace[1].started /\ trace[1].rc = 0) =>
          (result.exc.kind # "duplicate" /\ StepsOf(S_add) # {})

\* C19 witness: the main checkout is on branch f/x, a create of f/x without
\* force lists it, finds no duplicate and goes on to the add
C19_Witness ==
    /\ call.op = "create"
    /\ call.cwd = call.before[1].root
    /\ ~call.force
    /\ ~call.resolve_commits
    /\ call.commit_ish = S_fx
    /\ call.before[1].label = S_refs_heads \o S_fx
    /\ trace[1].command[3] = S_list
    /\ trace[1].started /\ trace[1].rc = 0
    /\ StepsOf(S_add) # {}
    /\ result.exc.kind # "duplicate"

====
